---- MODULE Spec2Model ----
(***************************************************************************)
(* Rule 118 -- TRANSLATE with obsolete CODE PAGE (src/app/app.py).         *)
(*                                                                         *)
(* A text is a sequence of one-character strings.  Offsets are 0-based as  *)
(* in Python: offset p names the character text[p + 1].  The regular       *)
(* expressions of the source are modelled character by character, with    *)
(* their word boundaries, case folding and whitespace classes.             *)
(***************************************************************************)
EXTENDS Integers, Sequences, FiniteSets, TLC

VARIABLES units, ui, pc, src, pos, findings, results, text, start, end, snippet

vars == <<units, ui, pc, src, pos, findings, results, text, start, end, snippet>>

\* an absent body (Python's None): no text, since a text holds single characters
None == <<"None">>

NL == "\n"

----------------------------------------------------------------------------
(* Character classes of Python's re on str.                                *)

UpperLetters == <<"A","B","C","D","E","F","G","H","I","J","K","L","M",
                  "N","O","P","Q","R","S","T","U","V","W","X","Y","Z">>

LowerLetters == <<"a","b","c","d","e","f","g","h","i","j","k","l","m",
                  "n","o","p","q","r","s","t","u","v","w","x","y","z">>

Digits == {"0","1","2","3","4","5","6","7","8","9"}

\* \w : alphanumerics and the underscore
WordChars == {UpperLetters[i] : i \in 1..26} \cup {LowerLetters[i] : i \in 1..26}
             \cup Digits \cup {"_"}

\* \s : whitespace, newlines included
SpaceChars == {" ", "\t", "\n", "\r", "\f"}

\* [0-9a-f] under (?i)
HexChars == Digits \cup {"A","B","C","D","E","F"}

\* (?i): a character folded to upper case
FoldMap == [c \in {LowerLetters[i] : i \in 1..26} |->
              UpperLetters[CHOOSE i \in 1..26 : LowerLetters[i] = c]]

Fold(c) == IF c \in DOMAIN FoldMap THEN FoldMap[c] ELSE c

\* the least offset in lo..hi that satisfies P, else -1: the leftmost match
First(lo, hi, P(_)) ==
    IF \E q \in lo..hi : P(q)
    THEN CHOOSE q \in lo..hi : P(q) /\ \A r \in lo..(q - 1) : ~P(r)
    ELSE -1

Max2(a, b) == IF a >= b THEN a ELSE b

Min2(a, b) == IF a <= b THEN a ELSE b

\* the character at 0-based offset p
At(t, p) == t[p + 1]

IsWordAt(t, p) == p >= 0 /\ p < Len(t) /\ At(t, p) \in WordChars

\* \b at offset p: exactly one side is a word character
WordBoundary(t, p) == IsWordAt(t, p - 1) # IsWordAt(t, p)

\* a literal of the pattern, given in upper case, matched under (?i) at p
Lit(t, p, w) ==
    /\ p >= 0
    /\ p + Len(w) <= Len(t)
    /\ \A k \in 1..Len(w) : Fold(At(t, p + k - 1)) = w[k]

\* the offset where the maximal run of class cls starting at p ends
SkipClass(t, p, cls) ==
    LET q == First(p, Len(t) - 1, LAMBDA i : At(t, i) \notin cls)
    IN  IF q = -1 THEN Max2(p, Len(t)) ELSE q

SkipSpace(t, p) == SkipClass(t, p, SpaceChars)

\* the offset of the first newline at or after p, or the end of the text
EndOfLine(t, p) ==
    LET q == First(p, Len(t) - 1, LAMBDA i : At(t, i) = NL)
    IN  IF q = -1 THEN Max2(p, Len(t)) ELSE q

\* X\s+Y : Y's offset when X ends at p and whitespace follows, else -1
AfterSpaces(t, p) ==
    LET q == SkipSpace(t, p) IN IF q > p THEN q ELSE -1

----------------------------------------------------------------------------
(* Locator helpers.                                                        *)

\* text.count("\n", 0, off)
CountNL(t, off) == Cardinality({i \in 1..Min2(off, Len(t)) : t[i] = NL})

\* the line counted from 0
line_of_offset_ZeroBased(t, off) == CountNL(t, off)

line_of_offset(t, off) == CountNL(t, off) + 1

\* Python's slice index: a negative index counts from the end, then clamped
SliceIndex(t, i) ==
    IF i < 0 THEN Max2(0, i + Len(t)) ELSE Min2(i, Len(t))

\* t[s:e]
PySlice(t, s, e) ==
    LET lo == SliceIndex(t, s)
        hi == SliceIndex(t, e)
    IN  IF lo < hi THEN SubSeq(t, lo + 1, hi) ELSE <<>>

\* str.replace("\n", "\\n"): a newline becomes a backslash and an n
\* (the text is halved so that the evaluation's depth stays small)
RECURSIVE EscapeNL(_)
EscapeNL(t) ==
    IF Len(t) = 0 THEN <<>>
    ELSE IF Len(t) = 1 THEN (IF t[1] = NL THEN <<"\\", "n">> ELSE t)
    ELSE EscapeNL(SubSeq(t, 1, Len(t) \div 2))
         \o EscapeNL(SubSeq(t, Len(t) \div 2 + 1, Len(t)))

SnippetPad == 60

\* the window's start without the clamp at 0
WindowStart_Unclamped(t, s) == s - SnippetPad

WindowStart(t, s) == Max2(0, s - SnippetPad)

WindowEnd(t, e) == Min2(Len(t), e + SnippetPad)

snippet_at(t, s, e) == EscapeNL(PySlice(t, WindowStart(t, s), WindowEnd(t, e)))

----------------------------------------------------------------------------
(* Comment stripper.                                                       *)

\* (?m)^ at offset p
LineStart(t, p) == p = 0 \/ At(t, p - 1) = NL

\* (?m)^\s*\*.*$ matches at p: the end of the match, else -1.  \s* takes the
\* whole whitespace run, newlines included, and '*' must follow it.
StarCommentEnd(t, p) ==
    LET q == SkipSpace(t, p)
    IN  IF LineStart(t, p) /\ q < Len(t) /\ At(t, q) = "*"
        THEN EndOfLine(t, q)
        ELSE -1

\* re.sub(r'(?m)^\s*\*.*$', '', s), scanning from offset p: the text up to
\* the leftmost match is kept, the match is dropped, the scan goes on after it
RECURSIVE StripStarsFrom(_, _)
StripStarsFrom(t, p) ==
    LET m == First(p, Len(t) - 1, LAMBDA i : StarCommentEnd(t, i) # -1)
    IN  IF m = -1 THEN SubSeq(t, p + 1, Len(t))
        ELSE SubSeq(t, p + 1, m) \o StripStarsFrom(t, StarCommentEnd(t, m))

strip_full_line_star_comments(s) == StripStarsFrom(s, 0)

\* re.sub(r'".*?(?=\n|$)', '', s), scanning from offset p: from the leftmost
\* double quote to the end of its line is dropped
RECURSIVE StripQuotesFrom(_, _)
StripQuotesFrom(t, p) ==
    LET m == First(p, Len(t) - 1, LAMBDA i : At(t, i) = "\"")
    IN  IF m = -1 THEN SubSeq(t, p + 1, Len(t))
        ELSE SubSeq(t, p + 1, m) \o StripQuotesFrom(t, EndOfLine(t, m + 1))

strip_inline_quotes(s) == StripQuotesFrom(s, 0)

cleaned_stmt(stmt) == strip_inline_quotes(strip_full_line_star_comments(stmt))

\* cleaned_stmt(stmt).strip() == ""
is_entirely_commented(stmt) ==
    LET c == cleaned_stmt(stmt) IN \A k \in 1..Len(c) : c[k] \in SpaceChars

----------------------------------------------------------------------------
(* Detection patterns.                                                     *)

KwTranslate == <<"T","R","A","N","S","L","A","T","E">>

KwCode == <<"C","O","D","E">>

KwPage == <<"P","A","G","E">>

KwFrom == <<"F","R","O","M">>

KwTo == <<"T","O">>

\* CODE\s+PAGE\b with CODE at p: the offset after PAGE, else -1
CodePageEnd(t, p) ==
    IF Lit(t, p, KwCode)
    THEN LET q == AfterSpaces(t, p + 4)
         IN  IF Lit(t, q, KwPage) /\ WordBoundary(t, q + 4) THEN q + 4 ELSE -1
    ELSE -1

\* STMT_RE matches at p: the end of the match (after the first '.'), else -1
StmtEnd(t, p) ==
    IF WordBoundary(t, p) /\ Lit(t, p, KwTranslate) /\ WordBoundary(t, p + 9)
    THEN LET dot == First(p + 9, Len(t) - 1, LAMBDA q : At(t, q) = ".")
         IN  IF dot # -1 THEN dot + 1 ELSE -1
    ELSE -1

\* STMT_RE.search from offset p: the start of the leftmost match, else -1
StmtStart(t, p) == First(p, Len(t) - 1, LAMBDA i : StmtEnd(t, i) # -1)

\* the matches STMT_RE.finditer yields from offset p on, as <<start, end>>
RECURSIVE StmtsFrom(_, _)
StmtsFrom(t, p) ==
    LET s == StmtStart(t, p)
    IN  IF s = -1 THEN {}
        ELSE {<<s, StmtEnd(t, s)>>} \cup StmtsFrom(t, StmtEnd(t, s))

\* the phrase with one blank only between the two words
HAS_CODEPAGE_OneBlank(t) ==
    \E i \in 0..(Len(t) - 1) :
        /\ WordBoundary(t, i)
        /\ Lit(t, i, KwCode \o <<" ">> \o KwPage)
        /\ WordBoundary(t, i + 9)

HAS_CODEPAGE(t) ==
    \E i \in 0..(Len(t) - 1) : WordBoundary(t, i) /\ CodePageEnd(t, i) # -1

\* the legacy page CP2 forgotten
LEGACY_CP_Cp1Only(t) ==
    \E i \in 0..(Len(t) - 1) :
        /\ WordBoundary(t, i)
        /\ CodePageEnd(t, i) # -1
        /\ LET q == AfterSpaces(t, CodePageEnd(t, i))
           IN  Lit(t, q, <<"C","P","1">>) /\ WordBoundary(t, q + 3)

LEGACY_CP(t) ==
    \E i \in 0..(Len(t) - 1) :
        /\ WordBoundary(t, i)
        /\ CodePageEnd(t, i) # -1
        /\ LET q == AfterSpaces(t, CodePageEnd(t, i))
           IN  /\ Lit(t, q, <<"C","P","1">>) \/ Lit(t, q, <<"C","P","2">>)
               /\ WordBoundary(t, q + 3)

\* \b<word>\s+CODE\s+PAGE\b
DirectedCodePage(t, word) ==
    \E i \in 0..(Len(t) - 1) :
        /\ WordBoundary(t, i)
        /\ Lit(t, i, word)
        /\ CodePageEnd(t, AfterSpaces(t, i + Len(word))) # -1

FROM_CP(t) == DirectedCodePage(t, KwFrom)

TO_CP(t) == DirectedCodePage(t, KwTo)

\* \bx'[0-9a-f]+'\b
HEX_LITERAL(t) ==
    \E i \in 0..(Len(t) - 1) :
        /\ WordBoundary(t, i)
        /\ Lit(t, i, <<"X", "'">>)
        /\ LET q == SkipClass(t, i + 2, HexChars)
           IN  q > i + 2 /\ Lit(t, q, <<"'">>) /\ WordBoundary(t, q + 1)

\* \b(lx_|xstr|xstring)\w*\b : \w* runs to the end of the word
LIKELY_XVAR(t) ==
    \E i \in 0..(Len(t) - 1) :
        /\ WordBoundary(t, i)
        /\ \/ Lit(t, i, <<"L","X","_">>)
           \/ Lit(t, i, <<"X","S","T","R">>)

----------------------------------------------------------------------------
(* Unit scanner.                                                           *)

\* the missing-direction check skipped once the legacy check has fired
Classify_MissingUnlessLegacy(stmt) ==
    (IF HAS_CODEPAGE(stmt)
       THEN <<[issue_type |-> "TranslateObsoleteCodepage", severity |-> "warning"]>>
       ELSE <<>>)
    \o (IF LEGACY_CP(stmt)
       THEN <<[issue_type |-> "TranslateLegacyCp1Cp2", severity |-> "warning"]>>
       ELSE IF HAS_CODEPAGE(stmt) /\ ~(FROM_CP(stmt) \/ TO_CP(stmt))
       THEN <<[issue_type |-> "TranslateMissingFromTo", severity |-> "info"]>>
       ELSE <<>>)
    \o (IF HEX_LITERAL(stmt) \/ LIKELY_XVAR(stmt)
       THEN <<[issue_type |-> "TranslateNonCharacterRisk", severity |-> "info"]>>
       ELSE <<>>)

\* the non-character check run before the code page checks
Classify_RiskFirst(stmt) ==
    (IF HEX_LITERAL(stmt) \/ LIKELY_XVAR(stmt)
       THEN <<[issue_type |-> "TranslateNonCharacterRisk", severity |-> "info"]>>
       ELSE <<>>)
    \o (IF HAS_CODEPAGE(stmt)
       THEN <<[issue_type |-> "TranslateObsoleteCodepage", severity |-> "warning"]>>
       ELSE <<>>)
    \o (IF LEGACY_CP(stmt)
       THEN <<[issue_type |-> "TranslateLegacyCp1Cp2", severity |-> "warning"]>>
       ELSE <<>>)
    \o (IF HAS_CODEPAGE(stmt) /\ ~(FROM_CP(stmt) \/ TO_CP(stmt))
       THEN <<[issue_type |-> "TranslateMissingFromTo", severity |-> "info"]>>
       ELSE <<>>)

\* the four checks of scan_unit, in the order the code runs them
Classify(stmt) ==
    (IF HAS_CODEPAGE(stmt)
       THEN <<[issue_type |-> "TranslateObsoleteCodepage", severity |-> "warning"]>>
       ELSE <<>>)
    \o (IF LEGACY_CP(stmt)
       THEN <<[issue_type |-> "TranslateLegacyCp1Cp2", severity |-> "warning"]>>
       ELSE <<>>)
    \o (IF HAS_CODEPAGE(stmt) /\ ~(FROM_CP(stmt) \/ TO_CP(stmt))
       THEN <<[issue_type |-> "TranslateMissingFromTo", severity |-> "info"]>>
       ELSE <<>>)
    \o (IF HEX_LITERAL(stmt) \/ LIKELY_XVAR(stmt)
       THEN <<[issue_type |-> "TranslateNonCharacterRisk", severity |-> "info"]>>
       ELSE <<>>)

\* the checks that fire for the match [s, e) of body t; none when the
\* statement is entirely commented
StmtChecks(t, s, e) ==
    LET stmt_raw == PySlice(t, s, e)
    IN  IF is_entirely_commented(stmt_raw) THEN <<>>
        ELSE Classify(cleaned_stmt(stmt_raw))

\* the line a finding of the match starting at s reports
FindingLine(t, s) == line_of_offset(t, s)

\* the snippet a finding of the match [s, e) carries
FindingSnippet(t, s, e) == snippet_at(t, s, e)

\* the findings one loop iteration appends for the match [s, e) of unit u.
\* Field "at" is the match's start offset: it is not in the code's record and
\* only tells which statement produced the finding.
StmtFindings(u, t, s, e) ==
    LET checks == StmtChecks(t, s, e)
        line   == FindingLine(t, s)
        snip   == FindingSnippet(t, s, e)
    IN  [k \in 1..Len(checks) |->
            [name       |-> u.name,
             issue_type |-> checks[k].issue_type,
             severity   |-> checks[k].severity,
             line       |-> line,
             snippet    |-> snip,
             at         |-> s]]

\* unit.code or ""
CodeOf(u) == IF u.code = None THEN <<>> ELSE u.code

\* the findings list a fresh call of scan_unit starts from
NewFindings == <<>>

\* unit.model_dump() plus the findings key
ScanResult(u, fs) == [name |-> u.name, code |-> u.code, rule118_findings |-> fs]

\* every result kept, empty or not
Collect_All(rs, res) == Append(rs, res)

\* scan_rule keeps a result only when its findings list is non-empty
Collect(rs, res) == IF res.rule118_findings # <<>> THEN Append(rs, res) ELSE rs

\* scan_unit as a function of the unit alone: the findings from offset p on
RECURSIVE ScanFrom(_, _)
ScanFrom(u, p) ==
    LET s == StmtStart(CodeOf(u), p)
        e == StmtEnd(CodeOf(u), s)
    IN  IF s = -1 THEN <<>>
        ELSE StmtFindings(u, CodeOf(u), s, e) \o ScanFrom(u, e)

scan_unit(u) == ScanResult(u, ScanFrom(u, 0))

----------------------------------------------------------------------------
(* Inputs.                                                                 *)

RECURSIVE Concat(_)
Concat(ts) == IF ts = <<>> THEN <<>> ELSE Head(ts) \o Concat(Tail(ts))

SeqsUpTo(S, n) == UNION {[1..k -> S] : k \in 0..n}

MaxParts == 3

MaxSegs == 3

MaxUnits == 2

\* what precedes the keyword on its line
Leads == { <<>>, <<" ","*"," ">>, <<"\"">> }

\* fragments of a statement between the keyword and the period
Parts == { <<"\n">>,
          <<"*">>,
          <<"\"">>,
          <<" ","C","O","D","E"," ","P","A","G","E">>,
          <<" ","C","P","1">>,
          <<" ","f","r","o","m">>,
          <<" ","x","'","1","A","'">>,
          <<" ","L","X","_","a">>,
          <<"s">> }

RichBodies ==
    { lead \o KwTranslate \o Concat(ps) \o <<".">> :
        lead \in Leads, ps \in SeqsUpTo(Parts, MaxParts) }

\* whole lines and statements of a longer body
Segs == { <<"T","R","A","N","S","L","A","T","E"," ","a"," ","C","O","D","E"," ","P","A","G","E"," ","C","P","2",".","\n">>,
          <<"t","r","a","n","s","l","a","t","e"," ","l","x","_","a",".","\n">>,
          <<"*"," ","c","\n">>,
          <<"T","r","a","n","s","l","a","t","e"," ","b","\n","*"," ","o","l","d","\n"," "," ","c","o","d","e","\t","p","a","g","e"," ","'","U","'",".">>,
          <<"T","R","A","N","S","L","A","T","E"," ","c">>,
          <<"\n","T","R","A","N","S","L","A","T","E"," ","d"," ","T","O"," ","C","O","D","E"," ","P","A","G","E"," ","'","U","'",".">> }

SegBodies == { Concat(ss) : ss \in SeqsUpTo(Segs, MaxSegs) }

BatchCodes == { None,
          <<"T","R","A","N","S","L","A","T","E"," ","a"," ","C","O","D","E"," ","P","A","G","E"," ","C","P","2",".","\n">>,
          <<"t","r","a","n","s","l","a","t","e"," ","l","x","_","a",".","\n">>,
          <<"W","R","I","T","E"," ","a",".">>,
          <<>> }

Batches ==
    { <<[name |-> 1, code |-> b]>> : b \in RichBodies \cup SegBodies }
    \cup UNION { { [i \in 1..n |-> [name |-> i, code |-> cs[i]]] :
                     cs \in [1..n -> BatchCodes] } : n \in 0..MaxUnits }

----------------------------------------------------------------------------
(* scan_rule over one request.                                             *)

Init ==
    /\ units \in Batches
    /\ ui = 0
    /\ pc = "scan_rule"
    /\ src = <<>>
    /\ pos = 0
    /\ findings = <<>>
    /\ results = <<>>
    /\ text = <<>>
    /\ start = 0
    /\ end = 0
    /\ snippet = <<>>

\* for u in units: res = scan_unit(u) -- entry of scan_unit
ScanRuleNext ==
    /\ pc = "scan_rule"
    /\ ui < Len(units)
    /\ ui' = ui + 1
    /\ src' = CodeOf(units[ui + 1])
    /\ findings' = NewFindings
    /\ pos' = 0
    /\ pc' = "scan_unit"
    /\ UNCHANGED <<units, results, text, start, end, snippet>>

\* one iteration of the loop over STMT_RE.finditer(src)
ScanStmt ==
    /\ pc = "scan_unit"
    /\ LET s == StmtStart(src, pos)
           e == StmtEnd(src, s)
       IN  /\ s # -1
           /\ findings' = findings \o StmtFindings(units[ui], src, s, e)
           /\ pos' = e
    /\ UNCHANGED <<units, ui, pc, src, results, text, start, end, snippet>>

\* the loop is exhausted: scan_unit returns, its locals are gone, and
\* scan_rule collects the result
ScanUnitReturn ==
    /\ pc = "scan_unit"
    /\ StmtStart(src, pos) = -1
    /\ results' = Collect(results, ScanResult(units[ui], findings))
    /\ src' = <<>>
    /\ pos' = 0
    /\ findings' = <<>>
    /\ pc' = "scan_rule"
    /\ UNCHANGED <<units, ui, text, start, end, snippet>>

\* return results
ScanRuleReturn ==
    /\ pc = "scan_rule"
    /\ ui = Len(units)
    /\ pc' = "done"
    /\ UNCHANGED <<units, ui, src, pos, findings, results, text, start, end, snippet>>

Next == ScanRuleNext \/ ScanStmt \/ ScanUnitReturn \/ ScanRuleReturn

Spec == Init /\ [][Next]_vars

----------------------------------------------------------------------------
(* snippet_at on its own, over texts longer than the window.               *)

MaxTextLen == 123

DigitSeq == <<"0","1","2","3","4","5","6","7","8","9">>

\* a text of n characters, a newline at every k-th place (none when k = 0);
\* the other characters tell their place, so a shifted window shows
PatternText(n, k) ==
    [i \in 1..n |-> IF k > 0 /\ i % k = 0 THEN NL ELSE DigitSeq[(i % 10) + 1]]

NearPad(d) == d <= 1 \/ (d >= SnippetPad - 1 /\ d <= SnippetPad + 1)

\* lengths around the window's size
SnippetLens ==
    {n \in 0..MaxTextLen : NearPad(n) \/ n >= 2 * SnippetPad - 1}

\* offsets near the text's ends, near the window's size from either end, and
\* some in between
SnippetOffsets(n) == {o \in 0..n : NearPad(o) \/ NearPad(n - o) \/ o % 25 = 0}

InitSnippet ==
    /\ \E n \in SnippetLens, k \in {0, 1, 7} : text = PatternText(n, k)
    /\ start \in SnippetOffsets(Len(text))
    /\ end \in {o \in SnippetOffsets(Len(text)) : start <= o}
    /\ snippet = None
    /\ pc = "snippet_at"
    /\ units = <<>>
    /\ ui = 0
    /\ src = <<>>
    /\ pos = 0
    /\ findings = <<>>
    /\ results = <<>>

SnippetAt ==
    /\ pc = "snippet_at"
    /\ snippet' = snippet_at(text, start, end)
    /\ pc' = "snippet_done"
    /\ UNCHANGED <<units, ui, src, pos, findings, results, text, start, end>>

NextSnippet == SnippetAt

SpecSnippet == InitSnippet /\ [][NextSnippet]_vars

----------------------------------------------------------------------------
(* Vocabulary of the properties.                                           *)

\* the statements of the unit being scanned that the loop has gone through
Processed == {sp \in StmtsFrom(src, 0) : sp[2] <= pos}

RawStmt(sp) == PySlice(src, sp[1], sp[2])

Stripped(sp) == cleaned_stmt(RawStmt(sp))

\* the findings the statement starting at offset s produced, in list order
FindingsAt(s) == SelectSeq(findings, LAMBDA f : f.at = s)

IssuesAt(s) == {FindingsAt(s)[k].issue_type : k \in 1..Len(FindingsAt(s))}

HasIssue(s, issue) == \E k \in 1..Len(findings) :
    findings[k].at = s /\ findings[k].issue_type = issue

IsNL(c) == c = NL

Newlines(t) == Len(SelectSeq(t, IsNL))

\* word w (upper case) stands at place i of t (1-based), in any case
Occ(t, i, w) ==
    /\ i >= 1
    /\ i + Len(w) - 1 <= Len(t)
    /\ \A k \in 1..Len(w) : Fold(t[i + k - 1]) = w[k]

\* places a..b-1 of t are a non-empty run of whitespace
Gap(t, a, b) == b > a /\ \A k \in a..(b - 1) : t[k] \in SpaceChars

NoWordAt(t, i) == i < 1 \/ i > Len(t) \/ t[i] \notin WordChars

\* the word CODE stands at place i and, after whitespace, the word PAGE at j
CodePageAt(t, i, j) ==
    /\ Occ(t, i, KwCode)
    /\ Occ(t, j, KwPage)
    /\ Gap(t, i + 4, j)
    /\ NoWordAt(t, j + 4)

\* the places where the word PAGE of a phrase CODE PAGE starting at i stands
PageOfCodeAt(t, i) ==
    IF Occ(t, i, KwCode) THEN {j \in i..Len(t) : CodePageAt(t, i, j)} ELSE {}

\* t contains the phrase CODE PAGE as whole words
ContainsCodePage(t) ==
    \E i \in 1..Len(t) : NoWordAt(t, i - 1) /\ PageOfCodeAt(t, i) # {}

\* t contains CODE PAGE CP1 or CODE PAGE CP2 as whole words
ContainsLegacyPage(t) ==
    \E i \in 1..Len(t) : NoWordAt(t, i - 1) /\ \E j \in PageOfCodeAt(t, i) :
        \E k \in j..Len(t) :
            /\ Occ(t, k, <<"C","P","1">>) \/ Occ(t, k, <<"C","P","2">>)
            /\ Gap(t, j + 4, k)
            /\ NoWordAt(t, k + 3)

\* t contains <word> CODE PAGE as whole words
ContainsDirected(t, word) ==
    \E h \in 1..Len(t) :
        /\ NoWordAt(t, h - 1)
        /\ Occ(t, h, word)
        /\ \E i \in h..Len(t) :
               PageOfCodeAt(t, i) # {} /\ Gap(t, h + Len(word), i)

\* t contains a token X'<hex digits>'
ContainsHexLiteral(t) ==
    \E i \in 1..Len(t) : \E j \in (i + 3)..Len(t) :
        /\ NoWordAt(t, i - 1)
        /\ Fold(t[i]) = "X"
        /\ t[i + 1] = "'"
        /\ \A k \in (i + 2)..(j - 1) : Fold(t[k]) \in HexChars
        /\ t[j] = "'"

\* offset p of the body lies in a comment: its line begins with blanks and
\* '*', or a double quote stands before it on its line
InComment(t, p) ==
    LET ls == CHOOSE q \in 0..p :
                  /\ q = 0 \/ t[q] = NL
                  /\ \A r \in (q + 1)..p : t[r] # NL
        fs == SkipClass(t, ls, {" ", "\t"})
    IN  \/ fs <= p /\ At(t, fs) = "*"
        \/ \E q \in ls..(p - 1) : At(t, q) = "\""

EntirelyInComment(t, sp) ==
    \A p \in sp[1]..(sp[2] - 1) : At(t, p) = NL \/ InComment(t, p)

----------------------------------------------------------------------------
(* Properties.                                                             *)

\* C1: a TRANSLATE statement that lies entirely inside a comment (every
\* character of it stands on a line beginning with blanks and '*', or behind
\* a double quote on its line) never produces a finding.
C1_CommentedStatementSilent ==
    \A sp \in Processed :
        EntirelyInComment(src, sp) => FindingsAt(sp[1]) = <<>>

\* C2: every extracted statement whose text, comments stripped as scan_unit
\* strips them, contains the phrase CODE PAGE (any case, any whitespace
\* between the two words) has a TranslateObsoleteCodepage finding of
\* severity "warning" among its findings.
C2_CodePageIsObsolete ==
    \A sp \in Processed :
        ContainsCodePage(Stripped(sp)) =>
            \E k \in 1..Len(findings) :
                /\ findings[k].at = sp[1]
                /\ findings[k].issue_type = "TranslateObsoleteCodepage"
                /\ findings[k].severity = "warning"

\* a statement with a comment in it, the phrase outside the comment
C2_Witness ==
    \E sp \in Processed :
        /\ ContainsCodePage(Stripped(sp))
        /\ Stripped(sp) # RawStmt(sp)
        /\ HasIssue(sp[1], "TranslateObsoleteCodepage")

\* the case C3 speaks of: CODE PAGE without FROM CODE PAGE or TO CODE PAGE
Undirected(sp) ==
    /\ ContainsCodePage(Stripped(sp))
    /\ ~ContainsDirected(Stripped(sp), KwFrom)
    /\ ~ContainsDirected(Stripped(sp), KwTo)

\* C3 as stated: such a statement gets exactly 3 findings when it is legacy,
\* and otherwise at least TranslateObsoleteCodepage and TranslateMissingFromTo.
C3_ExactlyThreeWhenLegacy ==
    \A sp \in Processed :
        Undirected(sp) =>
            IF ContainsLegacyPage(Stripped(sp))
            THEN Len(FindingsAt(sp[1])) = 3
            ELSE {"TranslateObsoleteCodepage", "TranslateMissingFromTo"}
                     \subseteq IssuesAt(sp[1])

\* C3 amended: such a statement, when legacy, gets exactly the three findings
\* TranslateObsoleteCodepage, TranslateLegacyCp1Cp2 and TranslateMissingFromTo
\* and at most one more, a TranslateNonCharacterRisk (3 or 4 findings in
\* all); when not legacy it gets at least TranslateObsoleteCodepage and
\* TranslateMissingFromTo.
C3_ThreePlusRiskWhenLegacy ==
    \A sp \in Processed :
        Undirected(sp) =>
            IF ContainsLegacyPage(Stripped(sp))
            THEN LET fs   == FindingsAt(sp[1])
                     core == SelectSeq(fs, LAMBDA f :
                                 f.issue_type # "TranslateNonCharacterRisk")
                 IN  /\ Len(core) = 3
                     /\ {core[k].issue_type : k \in 1..3} =
                            {"TranslateObsoleteCodepage", "TranslateLegacyCp1Cp2",
                             "TranslateMissingFromTo"}
                     /\ Len(fs) \in {3, 4}
            ELSE {"TranslateObsoleteCodepage", "TranslateMissingFromTo"}
                     \subseteq IssuesAt(sp[1])

\* a legacy statement without direction that got a fourth finding
C3_Witness ==
    \E sp \in Processed :
        /\ Undirected(sp)
        /\ ContainsLegacyPage(Stripped(sp))
        /\ Len(FindingsAt(sp[1])) = 4

\* C4: every extracted statement that contains a hex literal X'<hex digits>'
\* and no CODE PAGE phrase gets exactly one finding, a
\* TranslateNonCharacterRisk.
C4_HexLiteralOneFinding ==
    \A sp \in Processed :
        (ContainsHexLiteral(Stripped(sp)) /\ ~ContainsCodePage(Stripped(sp))) =>
            /\ Len(FindingsAt(sp[1])) = 1
            /\ IssuesAt(sp[1]) = {"TranslateNonCharacterRisk"}

\* C5: every extracted statement whose comment-stripped text contains
\* CODE PAGE CP1 or CODE PAGE CP2 has both a TranslateObsoleteCodepage and a
\* TranslateLegacyCp1Cp2 finding; and no statement has a TranslateLegacyCp1Cp2
\* finding without a TranslateObsoleteCodepage finding.
C5_LegacyImpliesBoth ==
    /\ \A sp \in Processed :
           ContainsLegacyPage(Stripped(sp)) =>
               /\ HasIssue(sp[1], "TranslateObsoleteCodepage")
               /\ HasIssue(sp[1], "TranslateLegacyCp1Cp2")
    /\ \A k \in 1..Len(findings) :
           findings[k].issue_type = "TranslateLegacyCp1Cp2" =>
               HasIssue(findings[k].at, "TranslateObsoleteCodepage")

\* a statement naming a legacy page, scanned
C5_Witness ==
    \E sp \in Processed :
        /\ ContainsLegacyPage(Stripped(sp))
        /\ HasIssue(sp[1], "TranslateLegacyCp1Cp2")

\* the place of an issue type in the table of checks
Rank(issue) ==
    CASE issue = "TranslateObsoleteCodepage" -> 1
      [] issue = "TranslateLegacyCp1Cp2"     -> 2
      [] issue = "TranslateMissingFromTo"    -> 3
      [] issue = "TranslateNonCharacterRisk" -> 4

InOrder(fs) ==
    \A i, j \in 1..Len(fs) :
        i < j =>
            \/ fs[i].at < fs[j].at
            \/ fs[i].at = fs[j].at /\ Rank(fs[i].issue_type) < Rank(fs[j].issue_type)

\* C6: in a unit's findings list the findings of a statement that starts
\* earlier precede those of a statement that starts later, and the findings
\* of one statement stand in the order TranslateObsoleteCodepage,
\* TranslateLegacyCp1Cp2, TranslateMissingFromTo, TranslateNonCharacterRisk,
\* each issue type at most once.
C6_DiscoveryThenTableOrder ==
    /\ InOrder(findings)
    /\ \A r \in 1..Len(results) : InOrder(results[r].rule118_findings)

\* a returned list with several findings of one statement and a later statement's
C6_Witness ==
    \E r \in 1..Len(results) :
        LET fs == results[r].rule118_findings
        IN  \E i, j, k \in 1..Len(fs) :
                i < j /\ j < k /\ fs[i].at = fs[j].at /\ fs[j].at < fs[k].at

LineIsOfStart(body, fs) ==
    \A k \in 1..Len(fs) :
        /\ fs[k].line = 1 + Newlines(SubSeq(body, 1, fs[k].at))
        /\ \A m \in 1..Len(fs) : fs[m].at = fs[k].at => fs[m].line = fs[k].line

\* C7: every finding's line is 1 plus the number of newlines of the original
\* body before the start offset of its statement's keyword; the findings of
\* one statement carry the same line.
C7_LineOfStatementStart ==
    /\ LineIsOfStart(src, findings)
    /\ \A r \in 1..Len(results) :
           LineIsOfStart(results[r].code, results[r].rule118_findings)

\* findings on different lines, one of a statement with a comment line inside
C7_Witness ==
    \E sp \in Processed : \E k, m \in 1..Len(findings) :
        /\ findings[k].at = sp[1]
        /\ findings[k].line > 1
        /\ findings[m].line # findings[k].line
        /\ Newlines(Stripped(sp)) > 0
        /\ Stripped(sp) # RawStmt(sp)

\* the place in the snippet where the character at offset i of the window
\* starting at lo lands: every newline before it takes two places
SnippetPlace(t, lo, i) == (i - lo) + Newlines(SubSeq(t, lo + 1, i)) + 1

\* C8: for 0 <= start <= end <= len(text) the snippet holds no raw newline
\* and is text[max(0, start-60) : min(len(text), end+60)] with each newline
\* replaced by a backslash and an n, nothing else added.
C8_SnippetIsEscapedWindow ==
    pc = "snippet_done" =>
        LET lo == IF start - 60 > 0 THEN start - 60 ELSE 0
            hi == IF end + 60 < Len(text) THEN end + 60 ELSE Len(text)
        IN  /\ \A k \in 1..Len(snippet) : snippet[k] # NL
            /\ Len(snippet) = (hi - lo) + Newlines(SubSeq(text, lo + 1, hi))
            /\ \A i \in lo..(hi - 1) :
                   IF At(text, i) = NL
                   THEN /\ snippet[SnippetPlace(text, lo, i)] = "\\"
                        /\ snippet[SnippetPlace(text, lo, i) + 1] = "n"
                   ELSE snippet[SnippetPlace(text, lo, i)] = At(text, i)

\* a window cut on both sides, newlines inside it
C8_Witness ==
    /\ pc = "snippet_done"
    /\ start - 60 > 0
    /\ end + 60 < Len(text)
    /\ start < end
    /\ Len(snippet) > end - start + 120

\* the result scan_rule owes for unit u
Expected(u) == scan_unit(u)

\* C9: scan_rule returns exactly the units whose findings list is non-empty,
\* in input order, each with the findings scan_unit yields for that unit
\* alone; a unit with an empty or absent body is omitted.
C9_BatchIsFilteredMap ==
    pc = "done" =>
        /\ results = SelectSeq([i \in 1..Len(units) |-> Expected(units[i])],
                               LAMBDA res : res.rule118_findings # <<>>)
        /\ \A i \in 1..Len(units) :
               CodeOf(units[i]) = <<>> =>
                   \A r \in 1..Len(results) : results[r].name # units[i].name

\* a batch of several units, one with findings after one without a body
C9_Witness ==
    /\ pc = "done"
    /\ Len(units) >= 2
    /\ units[1].code = None
    /\ Len(results) = 1
    /\ results[1].name = 2

\* C10: comment stripping never removes a newline: the stripped text of a
\* statement has as many newlines as the statement.
C10_StrippingKeepsNewlines ==
    \A sp \in Processed : Newlines(Stripped(sp)) = Newlines(RawStmt(sp))

====
